---- MODULE Spec2Model ----
(***************************************************************************)
(* The rotation conversions of docs/tutorials/euler-angles.ipynb:          *)
(* Euler angles -> rotor (R_euler), rotor -> rotated frame -> matrix, and   *)
(* matrix -> frame -> rotor, over the geometric algebra Cl(3).               *)
(*                                                                         *)
(* Numbers are exact.  A multivector is a record [c, d, r] that stands for  *)
(* (c[1] + c[2] e1 + c[3] e2 + c[4] e3 + c[5] e12 + c[6] e13 + c[7] e23      *)
(*  + c[8] e123) * sqrt(r) / d, with integer c, d > 0 and r square-free.     *)
(* d = 0 is the not-a-number multivector that a division by 0.0 gives.       *)
(* A float is a multivector with only c[1].  Floating-point rounding is not  *)
(* modelled: equalities below are the exact ones behind "within tolerance".  *)
(***************************************************************************)
EXTENDS Integers, Sequences, FiniteSets, TLC

\* ------------------------------------------------------------------ bounds
\* Euler half-angles are the rational points of the unit circle with
\* tan(quarter angle) = p/q, |p| <= MaxT, 0 <= q <= MaxT.
MaxT == 2
\* Input rotors and frame vectors have denominators 1..MaxDen.
MaxDen == 3
\* Non-unit inputs are scaled by factors 0..MaxScale.
MaxScale == 2

\* ------------------------------------------------------- integer helpers
AbsInt(n) == IF n < 0 THEN -n ELSE n

RECURSIVE GcdNat(_, _)
GcdNat(a, b) == IF b = 0 THEN a ELSE GcdNat(b, a % b)

Gcd(a, b) == GcdNat(AbsInt(a), AbsInt(b))

\* <<k, r>> with n = k*k*r and r square-free, for n >= 1 (trial division).
RECURSIVE SquarePart(_, _, _, _)
SquarePart(n, f, k, r) ==
    IF f * f > n THEN <<k, r * n>>
    ELSE IF n % (f * f) = 0 THEN SquarePart(n \div (f * f), f, k * f, r)
    ELSE IF n % f = 0 THEN SquarePart(n \div f, f + 1, k, r * f)
    ELSE SquarePart(n, f + 1, k, r)

\* ------------------------------------------------- the algebra Cl(3)
\* Basis blades in the library's order: 1, e1, e2, e3, e12, e13, e23, e123.
Blades == << {}, {1}, {2}, {3}, {1, 2}, {1, 3}, {2, 3}, {1, 2, 3} >>

BladeIdx(S) == CHOOSE i \in 1..8 : Blades[i] = S

\* Product of basis blades i and j: the blade of the symmetric difference,
\* signed by the parity of the swaps that sort the indices (e_k e_k = +1).
MulIdx ==
    [i \in 1..8 |-> [j \in 1..8 |->
        BladeIdx((Blades[i] \cup Blades[j]) \ (Blades[i] \cap Blades[j]))]]

MulSign ==
    [i \in 1..8 |-> [j \in 1..8 |->
        IF Cardinality({p \in Blades[i] \X Blades[j] : p[1] > p[2]}) % 2 = 0
        THEN 1 ELSE -1]]

\* 1 where blade i contains blade j or the reverse, and neither is the scalar:
\* the terms the Hestenes inner product keeps.
InnerKeep ==
    [i \in 1..8 |-> [j \in 1..8 |->
        IF /\ i # 1 /\ j # 1
           /\ (Blades[i] \subseteq Blades[j] \/ Blades[j] \subseteq Blades[i])
        THEN 1 ELSE 0]]

\* Sign of blade i under reversion: grades 2 and 3 change sign.
RevSign == [i \in 1..8 |-> IF Cardinality(Blades[i]) \in {2, 3} THEN -1 ELSE 1]

Zero8 == <<0, 0, 0, 0, 0, 0, 0, 0>>

NaN == [c |-> Zero8, d |-> 0, r |-> 1]

IsNaN(x) == x.d = 0

Content(c) ==
    Gcd(c[1], Gcd(c[2], Gcd(c[3], Gcd(c[4], Gcd(c[5], Gcd(c[6], Gcd(c[7], c[8])))))))

\* The canonical record of c * sqrt(r) / d (r square-free, d >= 0).
Canon(c, d, r) ==
    IF d = 0 THEN NaN
    ELSE IF c = Zero8 THEN [c |-> Zero8, d |-> 1, r |-> 1]
    ELSE LET g == Gcd(Content(c), d)
         IN  [c |-> [i \in 1..8 |-> c[i] \div g], d |-> d \div g, r |-> r]

Scalar(n, d) == Canon(<<n, 0, 0, 0, 0, 0, 0, 0>>, d, 1)

Blade(i) == Canon([k \in 1..8 |-> IF k = i THEN 1 ELSE 0], 1, 1)

e1 == Blade(2)
e2 == Blade(3)
e3 == Blade(4)
e12 == Blade(5)
e13 == Blade(6)
e23 == Blade(7)
e123 == Blade(8)
One == Scalar(1, 1)

\* Bilinear product of coefficient tuples, keep[i][j] choosing the terms.
RawProduct(a, b, keep) ==
    [k \in 1..8 |->
        LET t(i) == LET j == MulIdx[i][k]
                    IN  a[i] * b[j] * MulSign[i][j] * keep[i][j]
        IN  t(1) + t(2) + t(3) + t(4) + t(5) + t(6) + t(7) + t(8)]

KeepAll == [i \in 1..8 |-> [j \in 1..8 |-> 1]]

Product(x, y, keep) ==
    IF IsNaN(x) \/ IsNaN(y) THEN NaN
    ELSE LET g == Gcd(x.r, y.r)
             p == RawProduct(x.c, y.c, keep)
         IN  Canon([k \in 1..8 |-> g * p[k]], x.d * y.d,
                   (x.r \div g) * (y.r \div g))

\* x * y, the geometric product.
Mul(x, y) == Product(x, y, KeepAll)

\* x | y, the inner product.
Inner(x, y) == Product(x, y, InnerKeep)

\* ~x, the reverse.
Rev(x) == IF IsNaN(x) THEN NaN
          ELSE [c |-> [i \in 1..8 |-> RevSign[i] * x.c[i]], d |-> x.d, r |-> x.r]

\* -x
Neg(x) == IF IsNaN(x) THEN NaN
          ELSE [c |-> [i \in 1..8 |-> -x.c[i]], d |-> x.d, r |-> x.r]

\* x + y, for summands with the same radical (or a zero summand).
Add(x, y) ==
    IF IsNaN(x) \/ IsNaN(y) THEN NaN
    ELSE IF x.c = Zero8 THEN y
    ELSE IF y.c = Zero8 THEN x
    ELSE CASE x.r = y.r ->
            LET g == Gcd(x.d, y.d)
            IN  Canon([i \in 1..8 |-> x.c[i] * (y.d \div g) + y.c[i] * (x.d \div g)],
                      x.d * (y.d \div g), x.r)

\* abs(x) = sqrt(|(~x * x)[()]|), a float; in Cl(3) the scalar part of ~x*x is
\* the sum of the squared coefficients.
Abs(x) ==
    IF IsNaN(x) THEN NaN
    ELSE IF x.c = Zero8 THEN Scalar(0, 1)
    ELSE LET g == Content(x.c)
             n == LET q(i) == (x.c[i] \div g) * (x.c[i] \div g)
                  IN  (q(1) + q(2) + q(3) + q(4) + q(5) + q(6) + q(7) + q(8)) * x.r
             kr == SquarePart(n, 2, 1, 1)
         IN  Canon(<<g * kr[1], 0, 0, 0, 0, 0, 0, 0>>, x.d, kr[2])

\* x / f for a float f: the coefficients divided by f; dividing by 0.0 gives
\* not-a-number coefficients and raises nothing.
Div(x, f) ==
    IF IsNaN(x) \/ IsNaN(f) \/ f.c[1] = 0 THEN NaN
    ELSE IF x.c = Zero8 THEN x
    ELSE LET sg == IF f.c[1] < 0 THEN -1 ELSE 1
             k == AbsInt(f.c[1])
             g1 == Gcd(Content(x.c), k)
             g2 == Gcd(x.d, f.d)
             g3 == Gcd(x.r, f.r)
             m == sg * (f.d \div g2) * g3
         IN  Canon([i \in 1..8 |-> (x.c[i] \div g1) * m],
                   (x.d \div g2) * (k \div g1) * f.r,
                   (x.r \div g3) * (f.r \div g3))

\* float(x): the scalar coefficient.
Float(x) ==
    IF IsNaN(x) THEN NaN
    ELSE Canon(<<x.c[1], 0, 0, 0, 0, 0, 0, 0>>, x.d, x.r)

\* Not yet assigned (a name the notebook has not bound).
Undef == [c |-> Zero8, d |-> 0, r |-> 0]

UndefFrame == <<Undef, Undef, Undef>>

UndefMatrix == <<UndefFrame, UndefFrame, UndefFrame>>

\* --------------------------------------------------------------- angles
\* An angle phi is given by the cosine c/d and sine s/d of phi/2.
Angle(p, q) ==
    LET g == Gcd(Gcd(q * q - p * p, 2 * p * q), q * q + p * p)
    IN  [c |-> (q * q - p * p) \div g, s |-> (2 * p * q) \div g,
         d |-> (q * q + p * p) \div g]

Angles ==
    {Angle(pq[1], pq[2]) : pq \in {x \in (-MaxT..MaxT) \X (0..MaxT) : x # <<0, 0>>}}

CosHalf(phi) == Scalar(phi.c, phi.d)
SinHalf(phi) == Scalar(phi.s, phi.d)
Cos(phi) == Scalar(phi.c * phi.c - phi.s * phi.s, phi.d * phi.d)
Sin(phi) == Scalar(2 * phi.c * phi.s, phi.d * phi.d)

\* e**(-phi/2.*Bv) for a bivector Bv with Bv*Bv = -1: cos(phi/2) - sin(phi/2) Bv.
ExpHalf(phi, Bv) == Add(CosHalf(phi), Mul(Neg(SinHalf(phi)), Bv))

\* R_euler with the last product mistyped as a sum.
R_euler_sum(phi, theta, psi) ==
    Add(Mul(ExpHalf(phi, e12), ExpHalf(theta, e23)), ExpHalf(psi, e12))

\* R_euler with the elemental rotors multiplied in the opposite order.
R_euler_reversed(phi, theta, psi) ==
    Mul(Mul(ExpHalf(psi, e12), ExpHalf(theta, e23)), ExpHalf(phi, e12))

\* ------------------------------------------------------ the notebook cells
R_euler(phi, theta, psi) ==
    LET Rphi == ExpHalf(phi, e12)
        Rtheta == ExpHalf(theta, e23)
        Rpsi == ExpHalf(psi, e12)
    IN  Mul(Mul(Rphi, Rtheta), Rpsi)

\* A = [e1,e2,e3]
Frame0 == <<e1, e2, e3>>

\* rotateFrame without the reverse: R*a*R.
rotateFrame_unreversed(Rr, F) == [k \in 1..3 |-> Mul(Mul(Rr, F[k]), Rr)]

\* rotateFrame with the right-hand factor left out: R*a.
rotateFrame_onesided(Rr, F) == [k \in 1..3 |-> Mul(Rr, F[k])]

\* rotateFrame with the inverse in place of the reverse: R*a*~R/(R*~R).
rotateFrame_inverse(Rr, F) ==
    [k \in 1..3 |-> Div(Mul(Mul(Rr, F[k]), Rev(Rr)), Float(Mul(Rr, Rev(Rr))))]

\* [R*a*~R for a in F]
rotateFrame(Rr, F) == [k \in 1..3 |-> Mul(Mul(Rr, F[k]), Rev(Rr))]

\* frameToMatrix with the loops exchanged: for a in Af for b in Bf.
frameToMatrix_transposed(Bf, Af) ==
    [i \in 1..3 |-> [j \in 1..3 |-> Float(Inner(Bf[j], Af[i]))]]

\* array([float(b|a) for b in Bf for a in Af]).reshape(3,3)
frameToMatrix(Bf, Af) ==
    [i \in 1..3 |-> [j \in 1..3 |-> Float(Inner(Bf[i], Af[j]))]]

\* matrixToFrame reading the rows of the matrix.
matrixToFrame_rows(Mm) ==
    [k \in 1..3 |->
        Add(Add(Mul(Mm[k][1], e1), Mul(Mm[k][2], e2)), Mul(Mm[k][3], e3))]

\* [M[0,k]*e1 + M[1,k]*e2 + M[2,k]*e3 for the columns k]
matrixToFrame(Mm) ==
    [k \in 1..3 |->
        Add(Add(Mul(Mm[1][k], e1), Mul(Mm[2][k], e2)), Mul(Mm[3][k], e3))]

\* rotorSum with the factors exchanged: Bf[k]*Af[k].
rotorSum_swapped(Af, Bf) ==
    Add(One, Add(Add(Add(Scalar(0, 1), Mul(Bf[1], Af[1])), Mul(Bf[2], Af[2])),
                 Mul(Bf[3], Af[3])))

\* 1+sum([Af[k]*Bf[k] for k in range(3)])
rotorSum(Af, Bf) ==
    Add(One, Add(Add(Add(Scalar(0, 1), Mul(Af[1], Bf[1])), Mul(Af[2], Bf[2])),
                 Mul(Af[3], Bf[3])))

\* The division by abs(R) left out.
normalise_skipped(Rr) == Rr

\* R/abs(R)
normalise(Rr) == Div(Rr, Abs(Rr))

\* One elemental rotation of the intrinsic derivation: a rotation by angle in
\* the plane Bv carried along by the rotor Rr built so far, multiplied on the
\* left of Rr.
intrinsicStep(Rr, angle, Bv) ==
    Mul(ExpHalf(angle, Mul(Mul(Rr, Bv), Rev(Rr))), Rr)

\* ------------------------------------------------------------ input sets
Vec(x, y, z, d) == Canon(<<0, x, y, z, 0, 0, 0, 0>>, d, 1)

Even(w, x, y, z, d) == Canon(<<w, 0, 0, 0, x, y, z, 0>>, d, 1)

Coordinate(v, j) == Canon(<<v.c[j + 1], 0, 0, 0, 0, 0, 0, 0>>, v.d, v.r)

\* The rotors w + x e12 + y e13 + z e23 of norm 1 with denominator <= MaxDen.
UnitRotors ==
    {Even(q[1], q[2], q[3], q[4], q[5]) :
        q \in {t \in (-MaxDen..MaxDen) \X (-MaxDen..MaxDen) \X (-MaxDen..MaxDen)
                     \X (-MaxDen..MaxDen) \X (1..MaxDen) :
                 t[1] * t[1] + t[2] * t[2] + t[3] * t[3] + t[4] * t[4] = t[5] * t[5]}}

\* Even multivectors that need not have norm 1: k times one with coefficients
\* in -1..1 (2, 1 - e12, 0, ...).
ScaledRotors ==
    {Even(q[5] * q[1], q[5] * q[2], q[5] * q[3], q[5] * q[4], 1) :
        q \in (-1..1) \X (-1..1) \X (-1..1) \X (-1..1) \X (0..MaxScale)}

RotorInputs == UnitRotors \cup ScaledRotors

\* The unit vectors with denominator <= MaxDen.
UnitVectors ==
    {Vec(q[1], q[2], q[3], q[4]) :
        q \in {t \in (-MaxDen..MaxDen) \X (-MaxDen..MaxDen) \X (-MaxDen..MaxDen)
                     \X (1..MaxDen) :
                 t[1] * t[1] + t[2] * t[2] + t[3] * t[3] = t[4] * t[4]}}

Perp(u, v) == u.c[2] * v.c[2] + u.c[3] * v.c[3] + u.c[4] * v.c[4] = 0

\* Every orthonormal frame of such vectors, right- or left-handed.
OrthonormalFrames ==
    {F \in UnitVectors \X UnitVectors \X UnitVectors :
        Perp(F[1], F[2]) /\ Perp(F[1], F[3]) /\ Perp(F[2], F[3])}

\* Frames that are not orthonormal: one vector of [e1,e2,e3] stretched by k
\* and sheared by t times the next one.
SkewFrames ==
    {[k \in 1..3 |->
        IF k = q[1]
        THEN Add(Mul(Scalar(q[2], 1), Frame0[k]),
                 Mul(Scalar(q[3], 1), Frame0[(k % 3) + 1]))
        ELSE Frame0[k]] :
        q \in {t \in (1..3) \X (0..MaxScale) \X (0..1) : <<t[2], t[3]>> # <<1, 0>>}}

AxisFrames == SkewFrames \cup {Frame0}

FrameInputs == OrthonormalFrames \cup SkewFrames

\* The matrix whose rows are the vectors of F, scaled by k.
MatrixOfRows(F, k) ==
    [i \in 1..3 |-> [j \in 1..3 |-> Mul(Scalar(k, 1), Coordinate(F[i], j))]]

\* Rotations, reflections, their multiples, and skew matrices.
MatrixInputs ==
    {MatrixOfRows(q[1], q[2]) : q \in FrameInputs \X (0..MaxScale)}

VARIABLES
    phi, theta, psi,    \* the Euler angles given to R_euler
    R, A, B, M,         \* the notebook's names
    S,                  \* the rotor sum before R = R/abs(R)
    R0,                 \* the rotor the frame in B was last rotated with
    M0,                 \* the matrix the columns in B were last read from
    Rint,               \* the rotor of the intrinsic derivation
    Bneg,               \* the frame rotated with -R
    err,                \* the exception the last step raised, "none" if none
    pc

vars == <<phi, theta, psi, R, A, B, M, S, R0, M0, Rint, Bneg, err, pc>>

Angle0 == Angle(0, 1)

\* R = R_euler(phi, theta, psi)
CellEuler ==
    /\ pc \in {"start", "psi"}
    /\ R' = R_euler(phi, theta, psi)
    /\ err' = "none"
    /\ pc' = "rotor"
    /\ UNCHANGED <<phi, theta, psi, A, B, M, S, R0, M0, Rint, Bneg>>

\* A = [e1,e2,e3]; B = [R*a*~R for a in A]
CellRotate ==
    /\ pc \in {"rotor", "done"}
    /\ A' = Frame0
    /\ B' = rotateFrame(R, A')
    /\ R0' = R
    /\ err' = "none"
    /\ pc' = "frame"
    /\ UNCHANGED <<phi, theta, psi, R, M, S, M0, Rint, Bneg>>

\* M = [float(b|a) for b in B for a in A]; M = array(M).reshape(3,3)
CellMatrix ==
    /\ pc = "frame"
    /\ M' = frameToMatrix(B, A)
    /\ err' = "none"
    /\ pc' = "matrix"
    /\ UNCHANGED <<phi, theta, psi, R, A, B, S, R0, M0, Rint, Bneg>>

\* B = [M[0,0]*e1 + M[1,0]*e2 + M[2,0]*e3, ...]
CellColumns ==
    /\ pc = "matrix"
    /\ B' = matrixToFrame(M)
    /\ M0' = M
    /\ err' = "none"
    /\ pc' = "columns"
    /\ UNCHANGED <<phi, theta, psi, R, A, M, S, R0, Rint, Bneg>>

\* A = [e1,e2,e3]; R = 1+sum([A[k]*B[k] for k in range(3)]); R = R/abs(R)
\* No statement of the cell tests its input or raises.
CellRotor ==
    /\ pc = "columns"
    /\ A' = Frame0
    /\ S' = rotorSum(A', B)
    /\ R' = normalise(S')
    /\ err' = "none"
    /\ pc' = "done"
    /\ UNCHANGED <<phi, theta, psi, B, M, R0, M0, Rint, Bneg>>

\* The derivation's three elemental rotations, each in the plane carried
\* along by the rotations before it.
IntrinsicPhi ==
    /\ pc = "start"
    /\ Rint' = intrinsicStep(One, phi, e12)
    /\ pc' = "phi"
    /\ UNCHANGED <<phi, theta, psi, R, A, B, M, S, R0, M0, Bneg, err>>

IntrinsicTheta ==
    /\ pc = "phi"
    /\ Rint' = intrinsicStep(Rint, theta, e23)
    /\ pc' = "theta"
    /\ UNCHANGED <<phi, theta, psi, R, A, B, M, S, R0, M0, Bneg, err>>

IntrinsicPsi ==
    /\ pc = "theta"
    /\ Rint' = intrinsicStep(Rint, psi, e12)
    /\ pc' = "psi"
    /\ UNCHANGED <<phi, theta, psi, R, A, B, M, S, R0, M0, Bneg, err>>

\* rotateFrame applied to a rotor and a frame given by the caller.
CallRotateFrame ==
    /\ pc = "input"
    /\ B' = rotateFrame(R, A)
    /\ R0' = R
    /\ err' = "none"
    /\ pc' = "frame"
    /\ UNCHANGED <<phi, theta, psi, R, A, M, S, M0, Rint, Bneg>>

\* The same call with the rotor negated.
CallRotateFrameNeg ==
    /\ pc = "frame"
    /\ Bneg' = rotateFrame(Neg(R), A)
    /\ err' = "none"
    /\ pc' = "both"
    /\ UNCHANGED <<phi, theta, psi, R, A, B, M, S, R0, M0, Rint>>

Unbound ==
    /\ A = UndefFrame /\ B = UndefFrame /\ S = Undef /\ R0 = Undef
    /\ M0 = UndefMatrix /\ Rint = Undef /\ Bneg = UndefFrame /\ err = "none"

\* The notebook run top to bottom, for any Euler angles.
Init ==
    /\ phi \in Angles /\ theta \in Angles /\ psi \in Angles
    /\ R = Undef /\ M = UndefMatrix /\ Unbound
    /\ pc = "start"

Next ==
    \/ IntrinsicPhi \/ IntrinsicTheta \/ IntrinsicPsi
    \/ CellEuler \/ (pc = "rotor" /\ CellRotate) \/ CellMatrix \/ CellColumns
    \/ CellRotor

Spec == Init /\ [][Next]_vars

\* rotateFrame as a function of its arguments: any even multivector with
\* [e1,e2,e3] or a skewed frame, or a unit rotor with any frame.
InitFrame ==
    /\ phi = Angle0 /\ theta = Angle0 /\ psi = Angle0
    /\ \/ R \in ScaledRotors /\ A \in AxisFrames
       \/ R \in UnitRotors /\ A \in FrameInputs
    /\ B = UndefFrame /\ M = UndefMatrix /\ S = Undef /\ R0 = Undef
    /\ M0 = UndefMatrix /\ Rint = Undef /\ Bneg = UndefFrame /\ err = "none"
    /\ pc = "input"

NextFrame == CallRotateFrame \/ CallRotateFrameNeg

SpecFrame == InitFrame /\ [][NextFrame]_vars

\* The conversion cells entered with any rotor in R, or with any matrix in M,
\* and run again with what they produced.
InitConvert ==
    /\ phi = Angle0 /\ theta = Angle0 /\ psi = Angle0
    /\ Unbound
    /\ \/ R \in UnitRotors /\ M = UndefMatrix /\ pc = "rotor"
       \/ R = Undef /\ M \in MatrixInputs /\ pc = "matrix"

NextConvert == CellRotate \/ CellMatrix \/ CellColumns \/ CellRotor

SpecConvert == InitConvert /\ [][NextConvert]_vars
\* ------------------------------------------------- what the claims speak of
Zero == Scalar(0, 1)

Four == Scalar(4, 1)

IsUnit(x) == Mul(x, Rev(x)) = One

IsEven(x) == ~IsNaN(x) /\ x.c[2] = 0 /\ x.c[3] = 0 /\ x.c[4] = 0 /\ x.c[8] = 0

IsVector(x) ==
    ~IsNaN(x) /\ x.c[1] = 0 /\ x.c[5] = 0 /\ x.c[6] = 0 /\ x.c[7] = 0 /\ x.c[8] = 0

\* The dot product of two vectors, from their coordinates.
Dot(u, v) ==
    LET g == Gcd(u.r, v.r)
    IN  Canon(<<g * (u.c[2] * v.c[2] + u.c[3] * v.c[3] + u.c[4] * v.c[4]),
                0, 0, 0, 0, 0, 0, 0>>,
              u.d * v.d, (u.r \div g) * (v.r \div g))

Delta(i, j) == IF i = j THEN One ELSE Zero

IsOrthonormal(F) ==
    /\ \A k \in 1..3 : IsVector(F[k])
    /\ \A i \in 1..3 : \A j \in i..3 : Dot(F[i], F[j]) = Delta(i, j)

Identity == [i \in 1..3 |-> [j \in 1..3 |-> Delta(i, j)]]

Transpose(X) == [i \in 1..3 |-> [j \in 1..3 |-> X[j][i]]]

\* The product of two floats.
Times(x, y) ==
    IF IsNaN(x) \/ IsNaN(y) THEN NaN
    ELSE LET g == Gcd(x.r, y.r)
         IN  Canon(<<g * x.c[1] * y.c[1], 0, 0, 0, 0, 0, 0, 0>>, x.d * y.d,
                   (x.r \div g) * (y.r \div g))

MatMul(X, Y) ==
    [i \in 1..3 |-> [j \in 1..3 |->
        Add(Add(Times(X[i][1], Y[1][j]), Times(X[i][2], Y[2][j])),
            Times(X[i][3], Y[3][j]))]]

Det(X) ==
    LET minor(a, b, c, d) == Add(Times(a, d), Neg(Times(b, c)))
    IN  Add(Add(Times(X[1][1], minor(X[2][2], X[2][3], X[3][2], X[3][3])),
                Neg(Times(X[1][2], minor(X[2][1], X[2][3], X[3][1], X[3][3])))),
            Times(X[1][3], minor(X[2][1], X[2][2], X[3][1], X[3][2])))

Trace(X) == Add(Add(X[1][1], X[2][2]), X[3][3])

IsOrthogonal(X) == MatMul(X, Transpose(X)) = Identity

\* A proper rotation matrix: orthogonal with determinant +1.
IsRotation(X) == IsOrthogonal(X) /\ Det(X) = One

\* A rotation by 180 degrees, about whatever axis: trace -1.
IsHalfTurn(X) == IsRotation(X) /\ Trace(X) = Scalar(-1, 1)

\* M has just been read back from the frame rotated with the rotor that the
\* matrix M0 was converted to.
ReadBack == pc = "matrix" /\ M0 # UndefMatrix

\* C1. Round trip: a proper rotation matrix that is not a rotation by 180
\* degrees, converted to a rotor (columns read as frame B, S = 1 + sum A[k]*B[k],
\* R = S/|S|), comes back unchanged when [e1,e2,e3] is rotated with that rotor
\* and the matrix is read off as (i,j) = rotated[i] . original[j].
C1_RoundTrip ==
    (ReadBack /\ IsRotation(M0) /\ ~IsHalfTurn(M0)) => M = M0

\* A round trip of a rotation matrix that is not symmetric and whose rotor
\* has irrational coefficients.
C1_Witness ==
    /\ ReadBack /\ IsRotation(M0) /\ ~IsHalfTurn(M0)
    /\ M0 # Transpose(M0) /\ R.r # 1 /\ M = M0

\* ---------------------------------------------------------------- Euler
\* R holds what R_euler returned.
EulerRotor == pc = "rotor"

\* C2. Unit norm: for all angles the rotor Rphi*Rtheta*Rpsi that R_euler
\* returns satisfies R * ~R = 1 and has no grade-1 and no grade-3 part.
C2_UnitNorm == EulerRotor => (IsUnit(R) /\ IsEven(R))

\* R_euler returned a rotor with all four coefficients non-zero.
C2_Witness ==
    /\ EulerRotor /\ IsUnit(R)
    /\ R.c[1] # 0 /\ R.c[5] # 0 /\ R.c[6] # 0 /\ R.c[7] # 0

\* The elemental rotation matrices, acting on column vectors: about e3 and
\* about e1 by the angle a.
Rz(a) == << <<Cos(a), Neg(Sin(a)), Zero>>, <<Sin(a), Cos(a), Zero>>, <<Zero, Zero, One>> >>

Rx(a) == << <<One, Zero, Zero>>, <<Zero, Cos(a), Neg(Sin(a))>>, <<Zero, Sin(a), Cos(a)>> >>

\* M was read off the frame rotated with the rotor of R_euler.
EulerMatrix == pc = "matrix" /\ M0 = UndefMatrix

\* C3 as stated. Composition: the matrix read off the frame rotated with
\* R_euler(phi, theta, psi) is the product, in the order phi, theta, psi, of
\* the elemental rotation matrices about e3, e1, e3 (whether these act on
\* columns or are their transposes, which are what the read-out gives).
C3_ProductInOrder ==
    EulerMatrix =>
        \/ M = MatMul(MatMul(Rz(phi), Rx(theta)), Rz(psi))
        \/ M = MatMul(MatMul(Transpose(Rz(phi)), Transpose(Rx(theta))),
                      Transpose(Rz(psi)))

\* C3, amended. The matrix read off is the transpose of the product
\* Rz(phi) Rx(theta) Rz(psi): its rows, not its columns, are the rotated
\* vectors, so in terms of the matrices the read-out gives for the elemental
\* rotors the order is psi, theta, phi.
C3_TransposedProduct ==
    EulerMatrix =>
        M = Transpose(MatMul(MatMul(Rz(phi), Rx(theta)), Rz(psi)))

\* A matrix of three non-trivial angles that is not symmetric.
C3_Witness ==
    /\ EulerMatrix /\ M # Transpose(M)
    /\ phi.s # 0 /\ theta.s # 0 /\ psi.s # 0 /\ phi # psi
    /\ M = Transpose(MatMul(MatMul(Rz(phi), Rx(theta)), Rz(psi)))

Mag2(x) == Float(Mul(x, Rev(x)))

\* C4. rotateFrame preserves orthonormality: for a unit rotor and an
\* orthonormal frame the output vectors R*a_k*~R are vectors with
\* b_i . b_j = 1 for i = j and 0 otherwise, and the call leaves the rotor and
\* the input frame as they were.
C4_Orthonormal ==
    [][(pc = "input" /\ IsUnit(R) /\ IsOrthonormal(A))
        => (pc' = "frame" /\ IsOrthonormal(B') /\ R' = R /\ A' = A)]_vars

\* A frame other than [e1,e2,e3] rotated to a different orthonormal frame.
C4_Witness ==
    /\ pc = "frame" /\ IsUnit(R) /\ IsOrthonormal(A) /\ IsOrthonormal(B)
    /\ A # Frame0 /\ B # A /\ A[1].d = 3 /\ R.d = 3

\* C5. Sign ambiguity: rotateFrame(R, F) and rotateFrame(-R, F) are equal
\* vector by vector, for all unit rotors R and all frames F.
C5_SignAmbiguity ==
    (pc = "both" /\ IsUnit(R)) => \A k \in 1..3 : Bneg[k] = B[k]

\* Both calls made, with a rotor that moves the frame.
C5_Witness ==
    /\ pc = "both" /\ IsUnit(R) /\ Bneg = B /\ B # A /\ R # Neg(R)

\* C8 as stated. rotateFrame rejects invalid inputs: with a rotor not of unit
\* norm or a frame not orthonormal the call ends in InvalidInputError.
C8_Rejects ==
    (pc = "frame" /\ (~IsUnit(R) \/ ~IsOrthonormal(A)))
        => err = "InvalidInputError"

\* C8, amended. rotateFrame checks nothing and raises nothing: for every
\* even multivector R and every frame it returns the vectors R*a_k*~R, whose
\* inner products are those of the input frame times |R|^4, so a rotor of norm
\* |R| returns the rotated frame scaled by |R|^2.
C8_ReturnsScaledFrame ==
    pc = "frame" =>
        /\ err = "none"
        /\ \A k \in 1..3 : IsVector(B[k])
        /\ LET m4 == Mul(Mag2(R), Mag2(R))
           IN  \A i \in 1..3 : \A j \in i..3 :
                  Dot(B[i], B[j]) = Mul(m4, Dot(A[i], A[j]))

\* The rotor 2 returned [e1,e2,e3] scaled by 4.
C8_Witness ==
    /\ pc = "frame" /\ err = "none" /\ R = Scalar(2, 1) /\ A = Frame0
    /\ B = <<Mul(Four, e1), Mul(Four, e2), Mul(Four, e3)>>

\* ---------------------------------------------------------- matrix to rotor
\* R holds what the matrix-to-rotor cell made of the matrix M0.
Converted == pc = "done"

Diag(x, y, z) ==
    << <<Scalar(x, 1), Zero, Zero>>, <<Zero, Scalar(y, 1), Zero>>,
       <<Zero, Zero, Scalar(z, 1)>> >>

\* C6. matrixToRotor fails with DegenerateRotationError, and returns no
\* not-a-number rotor, whenever S = 1 + sum A[k]*B[k] has magnitude zero.
C6_DegenerateError ==
    (Converted /\ Abs(S) = Zero)
        => (err = "DegenerateRotationError" /\ ~IsNaN(R))

\* C7 as stated. matrixToRotor rejects invalid matrices: when M is not
\* orthogonal or its determinant is not +1 the call ends in InvalidInputError.
C7_Rejects == (Converted /\ ~IsRotation(M0)) => err = "InvalidInputError"

\* C7, amended. matrixToRotor checks nothing and raises nothing: for a
\* matrix that is not a proper rotation it returns S/|S|, an even multivector
\* of norm 1 (the rotor 1 for diag(1,1,-1) and for 2*I), and not-a-number
\* coefficients when S = 0 or when the matrix holds not-a-number entries.
C7_ReturnsNormalisedSum ==
    (Converted /\ ~IsRotation(M0)) =>
        /\ err = "none"
        /\ (IsNaN(S) \/ S = Zero) => IsNaN(R)
        /\ ~(IsNaN(S) \/ S = Zero) => (IsEven(R) /\ IsUnit(R))
        /\ M0 \in {Diag(1, 1, -1), Diag(2, 2, 2)} => R = One

\* The reflection diag(1,1,-1) came out as the rotor 1.
C7_Witness ==
    Converted /\ err = "none" /\ M0 = Diag(1, 1, -1) /\ R = One /\ S = Scalar(2, 1)

\* M0 is the matrix of the unit rotor R0, and R is what came back.
Recovered == Converted /\ IsUnit(R0) /\ IsEven(R0)

\* C10. Rotor recovery and the exact singular set: for a unit rotor R0 with
\* scalar part s, the matrix (R0*a_i*~R0) . a_j read by columns gives
\* S = 4*s*R0 exactly; so the result is R0 for s > 0 and -R0 for s < 0, and
\* |S| = 0 exactly when s = 0, which is exactly when the matrix is a rotation
\* by 180 degrees.
C10_RotorRecovered ==
    Recovered =>
        LET s == Float(R0)
        IN  /\ S = Mul(Mul(Four, s), R0)
            /\ s.c[1] > 0 => R = R0
            /\ s.c[1] < 0 => R = Neg(R0)
            /\ (Abs(S) = Zero) <=> (s.c[1] = 0)
            /\ IsHalfTurn(M0) <=> (s.c[1] = 0)

\* A rotor with negative scalar part and three bivector coefficients came
\* back negated, and not reversed.
C10_Witness ==
    /\ Recovered /\ R0.c[1] < 0 /\ R0.c[5] # 0 /\ R0.c[6] # 0 /\ R0.c[7] # 0
    /\ R = Neg(R0) /\ R # Rev(R0) /\ R # R0
====
